---- MODULE Spec2Model ----
(***************************************************************************)
(* Model of the custommetrics Traefik plugin (label-keyed variant): the    *)
(* constructor New, the background metrics server and Stop, the per-request *)
(* path ServeHTTP -> next.ServeHTTP -> collectMetrics, and the scrape path  *)
(* renderPrometheusFormat.  Strings are sequences of one-character strings  *)
(* so that key concatenation and strconv.ParseFloat act on characters.      *)
(***************************************************************************)
EXTENDS Integers, Sequences, FiniteSets, TLC

(* ---------------------------- bounds ----------------------------------- *)
\* number of concurrent request goroutines calling ServeHTTP
NumObservers == 2
\* total number of exchanges served
MaxExchanges == 2
\* total number of scrapes rendered
MaxScrapes == 1
\* number of calls the downstream handler makes on its response writer
MaxHandlerCalls == 2

(* ------------------------- program constants --------------------------- *)
MetricTypeCounter == "counter"
MetricTypeHistogram == "histogram"
MetricTypeGauge == "gauge"
\* the float64 returned by getNumericValueFromHeaders when nothing parses
DefaultValue == 1
\* Config.MetricsPort of CreateConfig
DefaultMetricsPort == 8081

(* ------------------------- bounded input sets -------------------------- *)
\* the nil pointer, the unheld lock, the unbound socket
Nil == 0
Observers == 1..NumObservers
SupportedTypes == {MetricTypeCounter, MetricTypeHistogram, MetricTypeGauge}
\* "summary" stands for every string that is not one of the three constants
ConfigTypes == SupportedTypes \cup {"summary"}
MetricName == <<"m">>
HeaderA == <<"A">>
HeaderB == <<"B">>
\* Config.MetricHeaders: empty, one header, two headers
HeaderConfigs == {<< >>, <<HeaderA>>, <<HeaderA, HeaderB>>}
\* header values: absent/empty, non-numeric, two numerics
Values == {<< >>, <<"u">>, <<"7">>, <<"1", "2">>}
\* 0 asks the OS for any free port
ConfigPorts == {0, DefaultMetricsPort}

Range(s) == {s[i] : i \in DOMAIN s}
Perms(S) == {p \in [1..Cardinality(S) -> S] : \A i, j \in DOMAIN p : p[i] = p[j] => i = j}

(* ------------------------- pure functions ------------------------------ *)
DigitVal == ("0" :> 0) @@ ("1" :> 1) @@ ("2" :> 2) @@ ("3" :> 3) @@ ("4" :> 4) @@
            ("5" :> 5) @@ ("6" :> 6) @@ ("7" :> 7) @@ ("8" :> 8) @@ ("9" :> 9)

RECURSIVE DecimalValue(_, _)
DecimalValue(s, acc) ==
    IF s = << >> THEN acc ELSE DecimalValue(Tail(s), 10 * acc + DigitVal[Head(s)])

\* strconv.ParseFloat(s, 64) on the strings of Values: a non-empty string of
\* decimal digits parses to its value, the empty string and a string holding
\* a letter are syntax errors.
ParseFloat(s) ==
    IF s # << >> /\ \A i \in DOMAIN s : s[i] \in DOMAIN DigitVal
    THEN [err |-> FALSE, val |-> DecimalValue(s, 0)]
    ELSE [err |-> TRUE, val |-> 0]

\* http.Header.Get: the value, or "" when the header is absent
Get(header, name) == IF name \in DOMAIN header THEN header[name] ELSE << >>

\* one `for _, headerName := range c.metricHeaders` loop of
\* getNumericValueFromHeaders over one header collection
RECURSIVE ScanNumeric(_, _)
ScanNumeric(names, header) ==
    IF names = << >> THEN [found |-> FALSE, val |-> 0]
    ELSE LET headerValue == Get(header, Head(names))
             parsed == ParseFloat(headerValue)
         IN  IF headerValue # << >> /\ ~parsed.err
             THEN [found |-> TRUE, val |-> parsed.val]
             ELSE ScanNumeric(Tail(names), header)

\* a scan that tries each header in the request and then in the response
\* before moving to the next header
RECURSIVE getNumericValueFromHeaders_PerHeader(_, _, _)
getNumericValueFromHeaders_PerHeader(names, req, responseHeaders) ==
    IF names = << >> THEN DefaultValue
    ELSE LET fromReq == ScanNumeric(<<Head(names)>>, req)
             fromResp == ScanNumeric(<<Head(names)>>, responseHeaders)
         IN  IF fromReq.found THEN fromReq.val
             ELSE IF fromResp.found THEN fromResp.val
             ELSE getNumericValueFromHeaders_PerHeader(Tail(names), req, responseHeaders)

\* a scan that checks the response headers first, then the request
getNumericValueFromHeaders_ResponseFirst(names, req, responseHeaders) ==
    LET fromReq == ScanNumeric(names, req)
        fromResp == ScanNumeric(names, responseHeaders)
    IN  IF fromResp.found THEN fromResp.val
        ELSE IF fromReq.found THEN fromReq.val
        ELSE DefaultValue

getNumericValueFromHeaders(names, req, responseHeaders) ==
    LET fromReq == ScanNumeric(names, req)
        fromResp == ScanNumeric(names, responseHeaders)
    IN  IF fromReq.found THEN fromReq.val
        ELSE IF fromResp.found THEN fromResp.val
        ELSE DefaultValue

\* a resolution that prefers the response's value
ResolveLabel_ResponseFirst(req, responseHeaders, headerName) ==
    IF Get(responseHeaders, headerName) # << >> THEN Get(responseHeaders, headerName)
    ELSE IF Get(req, headerName) # << >> THEN Get(req, headerName)
    ELSE << >>

\* the label value collectMetrics records for one configured header
ResolveLabel(req, responseHeaders, headerName) ==
    IF Get(req, headerName) # << >> THEN Get(req, headerName)
    ELSE IF Get(responseHeaders, headerName) # << >> THEN Get(responseHeaders, headerName)
    ELSE << >>

\* a labels map that records only the headers the exchange carries
CollectLabels_OnlyPresent(names, req, responseHeaders) ==
    [h \in {n \in Range(names) : ResolveLabel(req, responseHeaders, n) # << >>} |->
        ResolveLabel(req, responseHeaders, h)]

\* the labels map built by collectMetrics (a Go map: an unordered function)
CollectLabels(names, req, responseHeaders) ==
    [h \in Range(names) |-> ResolveLabel(req, responseHeaders, h)]

\* createMetricKey: `for k, v := range labels` visits the map in an order
\* the Go runtime chooses; `order` is that order
RECURSIVE createMetricKey(_, _, _)
createMetricKey(key, labels, order) ==
    IF order = << >> THEN key
    ELSE createMetricKey(key \o <<"_">> \o Head(order) \o <<"_">> \o labels[Head(order)],
                         labels, Tail(order))

(* ------------------------------ state ---------------------------------- *)
VARIABLES
    phase,          \* result of New: "unbuilt" (not called), "failed" (nil, err), "built" (plugin, nil)
    metricHeaders,  \* CustomMetrics.metricHeaders
    metricType,     \* CustomMetrics.metricType
    metricsPort,    \* CustomMetrics.metricsPort
    metrics,        \* MetricsStore.metrics: series key -> the Metric it points to
    muWriter,       \* MetricsStore.mu: the observer holding the write lock, or Nil
    muReaders,      \* MetricsStore.mu: number of read locks held
    obs,            \* per request goroutine: position in ServeHTTP/collectMetrics and locals
    exchanges,      \* number of ServeHTTP calls started
    scr,            \* the scraper: position in renderPrometheusFormat and locals
    scrapes,        \* number of renders started
    listener,       \* the port bound by net.Listen, or Nil when no socket is bound
    serveState,     \* the goroutine of startMetricsServer: "none", "serving", "exited"
    serverStop,     \* channel serverStop is closed
    serverStopped,  \* channel serverStopped is closed
    stopPc,         \* position of the caller of Stop
    observed,       \* history: labels -> number of completed observations, value the last one stored
    committed,      \* history: series key -> its Value when collectMetrics last returned
    portTaken,      \* history: net.Listen found the requested port held by another socket
    twin,           \* the store of a gauge instance served the same exchanges
    rw              \* one exchange seen at the response writer: the wrapper and the writer under it

vars == <<phase, metricHeaders, metricType, metricsPort, metrics, muWriter,
          muReaders, obs, exchanges, scr, scrapes, listener, serveState, serverStop,
          serverStopped, stopPc, observed, committed, portTaken, twin, rw>>

configVars == <<metricHeaders, metricType, metricsPort>>
storeVars == <<metrics>>
lockVars == <<muWriter, muReaders>>
serverVars == <<listener, serveState, serverStop, serverStopped, stopPc>>
historyVars == <<observed, committed>>
envVars == <<portTaken>>
twinVars == <<twin>>
writerVars == <<rw>>

\* the port the OS hands out for ":0"
EphemeralPort == 49152

IdleObserver ==
    [pc |-> "idle", req |-> << >>, responseHeaders |-> << >>, labels |-> << >>,
     metricKey |-> << >>, value |-> 0]

IdleScraper == [pc |-> "idle", todo |-> {}, helpAdded |-> FALSE, output |-> << >>]

\* no exchange in progress: `calls` are the calls next made on the writer it was
\* given, `under` the calls that reached the http.ResponseWriter under the
\* wrapper, `header` the response's header collection, `req` the request's
\* headers as collectMetrics read them, `before` the store when ServeHTTP began
IdleWriter ==
    [pc |-> "idle", headerWritten |-> FALSE, calls |-> << >>, under |-> << >>,
     nextCalls |-> 0, collected |-> 0, header |-> << >>, req |-> << >>,
     before |-> << >>]

Init ==
    /\ phase = "unbuilt"
    /\ metricHeaders = << >>
    /\ metricType = ""
    /\ metricsPort = 0
    /\ metrics = << >>
    /\ muWriter = Nil
    /\ muReaders = 0
    /\ obs = [o \in Observers |-> IdleObserver]
    /\ exchanges = 0
    /\ scr = IdleScraper
    /\ scrapes = 0
    /\ listener = Nil
    /\ serveState = "none"
    /\ serverStop = FALSE
    /\ serverStopped = FALSE
    /\ stopPc = "idle"
    /\ observed = << >>
    /\ committed = << >>
    /\ portTaken = FALSE
    /\ twin = << >>
    /\ rw = IdleWriter

(* --------------------------- construction ------------------------------ *)
\* New without the check of len(config.MetricHeaders)
New_NoHeaderCheck(headers, type, port, portInUse) ==
    /\ phase = "unbuilt"
    /\ metricHeaders' = headers
    /\ metricType' = type
    /\ metricsPort' = port
    /\ portTaken' = (port # 0 /\ portInUse)
    /\ IF port # 0 /\ portInUse
       THEN /\ phase' = "failed"
            /\ UNCHANGED <<listener, serveState>>
       ELSE /\ phase' = "built"
            /\ listener' = (IF port = 0 THEN EphemeralPort ELSE port)
            /\ serveState' = "serving"
    /\ UNCHANGED <<storeVars, lockVars, obs, exchanges, scr, scrapes, serverStop,
                   serverStopped, stopPc, historyVars, twinVars, writerVars>>

\* New listening on ":0" when the requested port is taken
New_FallsBack(headers, type, port, portInUse) ==
    /\ phase = "unbuilt"
    /\ IF Len(headers) = 0
       THEN /\ phase' = "failed"
            /\ UNCHANGED <<configVars, listener, serveState, portTaken>>
       ELSE /\ metricHeaders' = headers
            /\ metricType' = type
            /\ metricsPort' = port
            /\ portTaken' = (port # 0 /\ portInUse)
            /\ phase' = "built"
            /\ listener' = (IF port = 0 \/ portInUse THEN EphemeralPort ELSE port)
            /\ serveState' = "serving"
    /\ UNCHANGED <<storeVars, lockVars, obs, exchanges, scr, scrapes, serverStop,
                   serverStopped, stopPc, historyVars, twinVars, writerVars>>

\* New(ctx, next, config, name) with startMetricsServer inlined; portInUse is
\* whether another socket already holds the requested port
New(headers, type, port, portInUse) ==
    /\ phase = "unbuilt"
    /\ IF Len(headers) = 0
       THEN /\ phase' = "failed"
            /\ UNCHANGED <<configVars, listener, serveState, portTaken>>
       ELSE /\ metricHeaders' = headers
            /\ metricType' = type
            /\ metricsPort' = port
            /\ portTaken' = (port # 0 /\ portInUse)
            /\ IF port # 0 /\ portInUse
               THEN /\ phase' = "failed"
                    /\ UNCHANGED <<listener, serveState>>
               ELSE /\ phase' = "built"
                    /\ listener' = (IF port = 0 THEN EphemeralPort ELSE port)
                    /\ serveState' = "serving"
    /\ UNCHANGED <<storeVars, lockVars, obs, exchanges, scr, scrapes, serverStop,
                   serverStopped, stopPc, historyVars,
                   twinVars, writerVars>>

(* ------------------------- lifecycle: Stop ----------------------------- *)
\* Stop: `if c.server != nil { close(c.serverStop)`
StopClose ==
    /\ phase = "built"
    /\ stopPc = "idle"
    /\ serverStop' = TRUE
    /\ stopPc' = "wait"
    /\ UNCHANGED <<phase, configVars, storeVars, lockVars, obs, exchanges, scr, scrapes,
                   listener, serveState, serverStopped, historyVars,
                   envVars, twinVars, writerVars>>

\* Stop: `<-c.serverStopped` returns once the channel is closed
StopWait ==
    /\ stopPc = "wait"
    /\ serverStopped
    /\ stopPc' = "close"
    /\ UNCHANGED <<phase, configVars, storeVars, lockVars, obs, exchanges, scr, scrapes,
                   listener, serveState, serverStop, serverStopped, historyVars,
                   envVars, twinVars, writerVars>>

\* Stop: `return c.server.Close()` closes the listener and releases the port
StopServerClose ==
    /\ stopPc = "close"
    /\ listener' = Nil
    /\ stopPc' = "returned"
    /\ UNCHANGED <<phase, configVars, storeVars, lockVars, obs, exchanges, scr, scrapes,
                   serveState, serverStop, serverStopped, historyVars,
                   envVars, twinVars, writerVars>>

\* the goroutine of startMetricsServer: c.server.Serve(listener) returns
\* http.ErrServerClosed once the server is closed, or the listener's accept
\* error; Serve closes the listener on return and the deferred
\* close(c.serverStopped) runs
ServeReturns(serveErr) ==
    /\ serveState = "serving"
    /\ serveErr = "ErrServerClosed" => stopPc = "returned"
    /\ listener' = Nil
    /\ serverStopped' = TRUE
    /\ serveState' = "exited"
    /\ UNCHANGED <<phase, configVars, storeVars, lockVars, obs, exchanges, scr, scrapes,
                   serverStop, stopPc, historyVars,
                   envVars, twinVars, writerVars>>

(* --------------------- MetricsStore.mu (sync.RWMutex) ------------------- *)
\* mu.Lock() returns only when no writer and no reader holds the lock
CanLock == muWriter = Nil /\ muReaders = 0

\* a read lock that does not wait for the writer
CanRLock_IgnoresWriter == TRUE

\* mu.RLock() returns only when no writer holds the lock
CanRLock == muWriter = Nil

(* ------------------- ServeHTTP and collectMetrics ---------------------- *)
\* ServeHTTP is entered: it wraps the writer and calls c.next.ServeHTTP
ServeHTTP(o) ==
    /\ phase = "built"
    /\ exchanges < MaxExchanges
    /\ obs[o].pc = "idle"
    /\ obs' = [obs EXCEPT ![o] = [IdleObserver EXCEPT !.pc = "next"]]
    /\ exchanges' = exchanges + 1
    /\ UNCHANGED <<phase, configVars, storeVars, lockVars, scr, scrapes, serverVars,
                   historyVars,
                   envVars, twinVars, writerVars>>

\* c.next.ServeHTTP(wrappedRW, req) returns
NextReturns(o) ==
    /\ obs[o].pc = "next"
    /\ obs' = [obs EXCEPT ![o].pc = "collect"]
    /\ UNCHANGED <<phase, configVars, storeVars, lockVars, exchanges, scr, scrapes,
                   serverVars, historyVars,
                   envVars, twinVars, writerVars>>

\* the values an exchange can carry for one configured header
HeaderValues(h) ==
    IF h = HeaderA THEN {<< >>, <<"u">>, <<"7">>} ELSE {<< >>, <<"1", "2">>}

\* the header collections an exchange can carry for the configured headers
Headers == {h \in [Range(metricHeaders) -> Values] :
                \A name \in DOMAIN h : h[name] \in HeaderValues(name)}

\* header values made of the separator of createMetricKey and a header name
DelimiterValues == {<< >>, <<"_">> \o HeaderB \o <<"_">>}

\* the header collections of exchanges that carry such values
DelimiterHeaders == [Range(metricHeaders) -> DelimiterValues]

\* collectMetrics(req, wrappedRW.Header()) is entered with the headers of the
\* request and the headers the downstream handler set, both among `inputs`,
\* and c.store.mu.Lock() returns
LockWith(o, inputs) ==
    /\ obs[o].pc = "collect"
    /\ CanLock
    /\ muWriter' = o
    /\ \E req \in inputs, responseHeaders \in inputs :
          obs' = [obs EXCEPT ![o].pc = "labels", ![o].req = req,
                             ![o].responseHeaders = responseHeaders]
    /\ UNCHANGED <<phase, configVars, storeVars, muReaders, exchanges, scr, scrapes,
                   serverVars, historyVars,
                   envVars, twinVars, writerVars>>

Lock(o) == LockWith(o, Headers)

LockDelimited(o) == LockWith(o, DelimiterHeaders)

\* collectMetrics: build labels, then the series key; createMetricKey's range
\* visits the labels map in any order
BuildKey(o) ==
    /\ obs[o].pc = "labels"
    /\ LET labels == CollectLabels(metricHeaders, obs[o].req, obs[o].responseHeaders)
       IN  \E order \in Perms(DOMAIN labels) :
              obs' = [obs EXCEPT ![o].pc = "lookup", ![o].labels = labels,
                                 ![o].metricKey =
                                     IF Cardinality(DOMAIN labels) > 0
                                     THEN createMetricKey(MetricName, labels, order)
                                     ELSE MetricName]
    /\ UNCHANGED <<phase, configVars, storeVars, lockVars, exchanges, scr, scrapes,
                   serverVars, historyVars,
                   envVars, twinVars, writerVars>>

\* a Metric literal with the kind of CreateConfig instead of the configured one
NewMetric_DefaultKind(labels) ==
    [Name |-> MetricName, Type |-> MetricTypeCounter, Value |-> 0, Labels |-> labels]

\* the Metric literal of collectMetrics
NewMetric(labels) ==
    [Name |-> MetricName, Type |-> metricType, Value |-> 0, Labels |-> labels]

\* the creation assigning a fresh map that holds the new series only
GetOrCreate_DropsOthers(o) ==
    /\ obs[o].pc = "lookup"
    /\ IF obs[o].metricKey \in DOMAIN metrics
       THEN UNCHANGED storeVars
       ELSE metrics' = (obs[o].metricKey :> NewMetric(obs[o].labels))
    /\ obs' = [obs EXCEPT ![o].pc = "update"]
    /\ UNCHANGED <<phase, configVars, lockVars, exchanges, scr, scrapes, serverVars,
                   historyVars, envVars, twinVars, writerVars>>

\* collectMetrics: `metric := c.store.metrics[metricKey]`, created when nil.
\* A map entry is assigned once and never deleted, so the pointer `metric` is
\* identified with its key.
GetOrCreate(o) ==
    /\ obs[o].pc = "lookup"
    /\ IF obs[o].metricKey \in DOMAIN metrics
       THEN UNCHANGED storeVars
       ELSE metrics' = (obs[o].metricKey :> NewMetric(obs[o].labels)) @@ metrics
    /\ obs' = [obs EXCEPT ![o].pc = "update"]
    /\ UNCHANGED <<phase, configVars, lockVars, exchanges, scr, scrapes, serverVars,
                   historyVars,
                   envVars, twinVars, writerVars>>

\* the value the switch of collectMetrics is about to store in metric.Value
UpdatedValue(type, old, names, req, responseHeaders) ==
    IF type = MetricTypeCounter THEN old + 1
    ELSE IF type \in {MetricTypeHistogram, MetricTypeGauge}
    THEN getNumericValueFromHeaders(names, req, responseHeaders)
    ELSE old

\* collectMetrics: the switch reads metric.Value (counter) or the headers
UpdateLoad(o) ==
    /\ obs[o].pc = "update"
    /\ obs' = [obs EXCEPT ![o].pc = "store",
                          ![o].value = UpdatedValue(metricType,
                                                    metrics[obs[o].metricKey].Value,
                                                    metricHeaders, obs[o].req,
                                                    obs[o].responseHeaders)]
    /\ UNCHANGED <<phase, configVars, storeVars, lockVars, exchanges, scr, scrapes,
                   serverVars, historyVars,
                   envVars, twinVars, writerVars>>

\* collectMetrics: the switch writes metric.Value; no case matches an
\* unsupported type and nothing is written
UpdateStore(o) ==
    /\ obs[o].pc = "store"
    /\ IF metricType \in SupportedTypes
       THEN metrics' = [metrics EXCEPT ![obs[o].metricKey].Value = obs[o].value]
       ELSE metrics' = metrics
    /\ obs' = [obs EXCEPT ![o].pc = "unlock"]
    /\ UNCHANGED <<phase, configVars, lockVars, exchanges, scr, scrapes, serverVars,
                   historyVars,
                   envVars, twinVars, writerVars>>

\* the history entry of one label combination after one more observation
Observe(labels, stored) ==
    IF labels \in DOMAIN observed
    THEN [observed EXCEPT ![labels] = [n |-> @.n + 1, last |-> stored]]
    ELSE (labels :> [n |-> 1, last |-> stored]) @@ observed

\* collectMetrics returns: the deferred c.store.mu.Unlock(); ServeHTTP returns
UnlockStep(o) ==
    /\ obs[o].pc = "unlock"
    /\ muWriter' = (IF muWriter = o THEN Nil ELSE muWriter)
    /\ observed' = Observe(obs[o].labels, obs[o].value)
    /\ committed' = [k \in DOMAIN metrics |-> metrics[k].Value]
    /\ obs' = [obs EXCEPT ![o] = IdleObserver]
    /\ UNCHANGED <<phase, configVars, storeVars, muReaders, exchanges, scr, scrapes,
                   serverVars, envVars, writerVars>>

Unlock(o) == UnlockStep(o) /\ UNCHANGED twinVars

\* collectMetrics of an instance whose metricType is `type`, run in one piece
\* on store `st` for the exchange (req, responseHeaders); `order` is the order
\* in which its createMetricKey visits the labels
collectMetrics(st, type, req, responseHeaders, order) ==
    LET labels == CollectLabels(metricHeaders, req, responseHeaders)
        metricKey == IF Cardinality(DOMAIN labels) > 0
                     THEN createMetricKey(MetricName, labels, order)
                     ELSE MetricName
        created == IF metricKey \in DOMAIN st THEN st
                   ELSE (metricKey :> [NewMetric(labels) EXCEPT !.Type = type]) @@ st
    IN  [created EXCEPT ![metricKey].Value =
            UpdatedValue(type, @, metricHeaders, req, responseHeaders)]

\* collectMetrics of the gauge instance
TwinCollect(st, req, responseHeaders, order) ==
    collectMetrics(st, MetricTypeGauge, req, responseHeaders, order)

\* the exchange of observer o ends at this instance, and the gauge instance
\* beside it has served the same exchange
UnlockBoth(o) ==
    /\ UnlockStep(o)
    /\ \E order \in Perms(Range(metricHeaders)) :
          twin' = TwinCollect(twin, obs[o].req, obs[o].responseHeaders, order)

(* --------------------------- responseWriter ---------------------------- *)
\* http.StatusOK, and a status of a failing handler
StatusOK == 200
StatusInternalServerError == 500
StatusCodes == {StatusOK, StatusInternalServerError}

\* a call on an http.ResponseWriter; `code` is 0 for Write
WriteHeaderCall(statusCode) == [op |-> "WriteHeader", code |-> statusCode]
WriteCall == [op |-> "Write", code |-> 0]

\* a wrapper whose WriteHeader marks the header written and forwards nothing
WriteHeader_Swallows(w, statusCode) ==
    IF ~w.headerWritten THEN [w EXCEPT !.headerWritten = TRUE] ELSE w

\* a wrapper whose WriteHeader forwards every call
WriteHeader_ForwardsAll(w, statusCode) ==
    [w EXCEPT !.headerWritten = TRUE,
              !.under = Append(@, WriteHeaderCall(statusCode))]

\* (rw *responseWriter) WriteHeader(statusCode)
WriteHeader(w, statusCode) ==
    IF ~w.headerWritten
    THEN [w EXCEPT !.headerWritten = TRUE,
                   !.under = Append(@, WriteHeaderCall(statusCode))]
    ELSE w

\* (rw *responseWriter) Write(data)
Write(w) ==
    LET h == IF ~w.headerWritten THEN WriteHeader(w, StatusOK) ELSE w
    IN  [h EXCEPT !.under = Append(@, WriteCall)]

\* the status the client of an http.ResponseWriter receives after `callSeq`:
\* that of the first WriteHeader, or 200 when the body (or nothing) came first
StatusSent(callSeq) ==
    IF Len(callSeq) > 0 /\ callSeq[1].op = "WriteHeader" THEN callSeq[1].code
    ELSE StatusOK

\* ServeHTTP: `wrappedRW := &responseWriter{ResponseWriter: rw}`
WrapWriter ==
    /\ phase = "built"
    /\ rw.pc \in {"idle", "done"}
    /\ exchanges < MaxExchanges
    /\ exchanges' = exchanges + 1
    /\ rw' = [IdleWriter EXCEPT !.pc = "wrapped", !.before = metrics]
    /\ UNCHANGED <<phase, configVars, storeVars, lockVars, obs, scr, scrapes,
                   serverVars, historyVars, envVars, twinVars>>

\* ServeHTTP of the single-series variant (custommetrics.go:210-216):
\* collectMetrics runs before the downstream handler is entered
CallNext_CollectsFirst ==
    /\ rw.pc = "wrapped"
    /\ \E req \in Headers, order \in Perms(Range(metricHeaders)) :
          /\ metrics' = collectMetrics(metrics, metricType, req, rw.header, order)
          /\ rw' = [rw EXCEPT !.pc = "next", !.nextCalls = @ + 1,
                              !.collected = @ + 1, !.req = req]
    /\ UNCHANGED <<phase, configVars, lockVars, obs, exchanges, scr,
                   scrapes, serverVars, historyVars, envVars, twinVars>>

\* ServeHTTP: `c.next.ServeHTTP(wrappedRW, req)` is entered
CallNext ==
    /\ rw.pc = "wrapped"
    /\ rw' = [rw EXCEPT !.pc = "next", !.nextCalls = @ + 1]
    /\ UNCHANGED <<phase, configVars, storeVars, lockVars, obs, exchanges, scr,
                   scrapes, serverVars, historyVars, envVars, twinVars>>

\* the downstream handler calls WriteHeader on the writer it was given
NextWriteHeader(statusCode) ==
    /\ rw.pc = "next"
    /\ Len(rw.calls) < MaxHandlerCalls
    /\ rw' = [WriteHeader(rw, statusCode) EXCEPT
                  !.calls = Append(@, WriteHeaderCall(statusCode))]
    /\ UNCHANGED <<phase, configVars, storeVars, lockVars, obs, exchanges, scr,
                   scrapes, serverVars, historyVars, envVars, twinVars>>

\* the downstream handler calls Write on the writer it was given
NextWrite ==
    /\ rw.pc = "next"
    /\ Len(rw.calls) < MaxHandlerCalls
    /\ rw' = [Write(rw) EXCEPT !.calls = Append(@, WriteCall)]
    /\ UNCHANGED <<phase, configVars, storeVars, lockVars, obs, exchanges, scr,
                   scrapes, serverVars, historyVars, envVars, twinVars>>

\* the downstream handler sets a configured header on the response:
\* `rw.Header().Set(name, value)`, which the wrapper passes to the embedded writer
NextSetHeader(name, value) ==
    /\ rw.pc = "next"
    /\ name \in Range(metricHeaders)
    /\ value \in HeaderValues(name) \ {<< >>}
    /\ Get(rw.header, name) # value
    /\ rw' = [rw EXCEPT !.header = (name :> value) @@ @]
    /\ UNCHANGED <<phase, configVars, storeVars, lockVars, obs, exchanges, scr,
                   scrapes, serverVars, historyVars, envVars, twinVars>>

\* c.next.ServeHTTP returns
NextDone ==
    /\ rw.pc = "next"
    /\ rw' = [rw EXCEPT !.pc = "collect"]
    /\ UNCHANGED <<phase, configVars, storeVars, lockVars, obs, exchanges, scr,
                   scrapes, serverVars, historyVars, envVars, twinVars>>

\* ServeHTTP: `c.collectMetrics(req, wrappedRW.Header())`, then it returns
CollectAndReturn ==
    /\ rw.pc = "collect"
    /\ CanLock
    /\ \E req \in Headers, order \in Perms(Range(metricHeaders)) :
          /\ metrics' = collectMetrics(metrics, metricType, req, rw.header, order)
          /\ rw' = [rw EXCEPT !.pc = "done", !.collected = @ + 1, !.req = req]
    /\ UNCHANGED <<phase, configVars, lockVars, obs, exchanges, scr, scrapes,
                   serverVars, historyVars, envVars, twinVars>>

(* ------------- the single-series variant (custommetrics.go) ------------ *)
\* New of the variant: the one series is put in the store before
\* startMetricsServer runs
SingleNew(headers, type, port, portInUse) ==
    /\ phase = "unbuilt"
    /\ IF Len(headers) = 0
       THEN /\ phase' = "failed"
            /\ UNCHANGED <<configVars, storeVars, listener, serveState, portTaken>>
       ELSE /\ metricHeaders' = headers
            /\ metricType' = type
            /\ metricsPort' = port
            /\ metrics' = (MetricName :> [Name |-> MetricName, Type |-> type,
                                          Value |-> 0, Labels |-> << >>])
            /\ portTaken' = (port # 0 /\ portInUse)
            /\ IF port # 0 /\ portInUse
               THEN /\ phase' = "failed"
                    /\ UNCHANGED <<listener, serveState>>
               ELSE /\ phase' = "built"
                    /\ listener' = (IF port = 0 THEN EphemeralPort ELSE port)
                    /\ serveState' = "serving"
    /\ UNCHANGED <<lockVars, obs, exchanges, scr, scrapes, serverStop,
                   serverStopped, stopPc, historyVars, twinVars, writerVars>>

\* ServeHTTP of the variant calls collectMetrics(req) first
SingleServeHTTP(o) ==
    /\ phase = "built"
    /\ exchanges < MaxExchanges
    /\ obs[o].pc = "idle"
    /\ obs' = [obs EXCEPT ![o] = [IdleObserver EXCEPT !.pc = "collect"]]
    /\ exchanges' = exchanges + 1
    /\ UNCHANGED <<phase, configVars, storeVars, lockVars, scr, scrapes, serverVars,
                   historyVars, envVars, twinVars, writerVars>>

\* collectMetrics(req) is entered with the headers of the request, and
\* c.store.mu.Lock() returns
SingleLock(o) ==
    /\ obs[o].pc = "collect"
    /\ CanLock
    /\ muWriter' = o
    /\ \E req \in Headers :
          obs' = [obs EXCEPT ![o].pc = "update", ![o].req = req]
    /\ UNCHANGED <<phase, configVars, storeVars, muReaders, exchanges, scr, scrapes,
                   serverVars, historyVars, envVars, twinVars, writerVars>>

\* a counter that adds one for every configured header present
SingleUpdatedValue_PerHeader(type, old, names, req) ==
    IF type = MetricTypeCounter
    THEN old + Cardinality({i \in DOMAIN names : Get(req, names[i]) # << >>})
    ELSE IF type \in {MetricTypeHistogram, MetricTypeGauge}
    THEN (IF ScanNumeric(names, req).found THEN ScanNumeric(names, req).val
          ELSE DefaultValue)
    ELSE old

\* the value collectMetrics of the variant leaves in metric.Value: the
\* counter's fast path, else the first numeric request header or 1
SingleUpdatedValue(type, old, names, req) ==
    IF type = MetricTypeCounter
    THEN (IF \E i \in DOMAIN names : Get(req, names[i]) # << >> THEN old + 1 ELSE old)
    ELSE IF type \in {MetricTypeHistogram, MetricTypeGauge}
    THEN (IF ScanNumeric(names, req).found THEN ScanNumeric(names, req).val
          ELSE DefaultValue)
    ELSE old

\* collectMetrics of the variant: `metric := c.store.metrics[c.metricName]`
\* and the write of metric.Value
SingleUpdate(o) ==
    /\ obs[o].pc = "update"
    /\ IF MetricName \in DOMAIN metrics
       THEN metrics' = [metrics EXCEPT ![MetricName].Value =
                           SingleUpdatedValue(metricType, @, metricHeaders, obs[o].req)]
       ELSE UNCHANGED storeVars
    /\ obs' = [obs EXCEPT ![o].pc = "unlock"]
    /\ UNCHANGED <<phase, configVars, lockVars, exchanges, scr, scrapes, serverVars,
                   historyVars, envVars, twinVars, writerVars>>

\* collectMetrics returns (the deferred Unlock) and c.next.ServeHTTP is entered
SingleUnlock(o) ==
    /\ obs[o].pc = "unlock"
    /\ muWriter' = (IF muWriter = o THEN Nil ELSE muWriter)
    /\ obs' = [obs EXCEPT ![o].pc = "next"]
    /\ UNCHANGED <<phase, configVars, storeVars, muReaders, exchanges, scr, scrapes,
                   serverVars, historyVars, envVars, twinVars, writerVars>>

\* c.next.ServeHTTP(rw, req) returns, and ServeHTTP with it
SingleNextReturns(o) ==
    /\ obs[o].pc = "next"
    /\ obs' = [obs EXCEPT ![o] = IdleObserver]
    /\ UNCHANGED <<phase, configVars, storeVars, lockVars, exchanges, scr, scrapes,
                   serverVars, historyVars, envVars, twinVars, writerVars>>

(* ---------------------- renderPrometheusFormat ------------------------- *)
\* c.store.mu.RLock(); the range over c.store.metrics starts
RenderStart ==
    /\ phase = "built"
    /\ scrapes < MaxScrapes
    /\ scr.pc = "idle"
    /\ CanRLock
    /\ muReaders' = muReaders + 1
    /\ scr' = [pc |-> "range", todo |-> DOMAIN metrics, helpAdded |-> FALSE,
               output |-> << >>]
    /\ scrapes' = scrapes + 1
    /\ UNCHANGED <<phase, configVars, storeVars, muWriter, obs, exchanges, serverVars,
                   historyVars,
                   envVars, twinVars, writerVars>>

\* the iteration of the single-series renderer (custommetrics.go:120-127):
\* the comment lines are written for every series
RenderLines_HelpEveryTime(metric, helpAdded, labelOrder) ==
    << [line |-> "HELP", Name |-> metric.Name],
       [line |-> "TYPE", Name |-> metric.Name, Type |-> metric.Type],
       [line |-> "DATA", Name |-> metric.Name,
        labelPairs |-> [i \in DOMAIN labelOrder |->
                           <<labelOrder[i], metric.Labels[labelOrder[i]]>>],
        Value |-> metric.Value] >>

\* the lines one iteration of the range appends for series `metric`;
\* `labelOrder` is the order in which the inner range visits metric.Labels
RenderLines(metric, helpAdded, labelOrder) ==
    (IF helpAdded THEN << >>
     ELSE << [line |-> "HELP", Name |-> metric.Name],
             [line |-> "TYPE", Name |-> metric.Name, Type |-> metric.Type] >>)
    \o << [line |-> "DATA", Name |-> metric.Name,
           labelPairs |-> [i \in DOMAIN labelOrder |->
                              <<labelOrder[i], metric.Labels[labelOrder[i]]>>],
           Value |-> metric.Value] >>

\* an iteration that zeroes the series it has written out
RenderSeries_ResetsValue(key, labelOrder) ==
    /\ scr.pc = "range"
    /\ key \in scr.todo
    /\ LET metric == metrics[key]
       IN  /\ labelOrder \in Perms(DOMAIN metric.Labels)
           /\ scr' = [scr EXCEPT !.todo = @ \ {key}, !.helpAdded = TRUE,
                                 !.output = @ \o RenderLines(metric, scr.helpAdded, labelOrder)]
    /\ metrics' = [metrics EXCEPT ![key].Value = 0]
    /\ UNCHANGED <<phase, configVars, lockVars, obs, exchanges, scrapes,
                   serverVars, historyVars, envVars, twinVars, writerVars>>

\* one iteration of `for _, metric := range c.store.metrics`, on any series
\* not yet visited
RenderSeries(key, labelOrder) ==
    /\ scr.pc = "range"
    /\ key \in scr.todo
    /\ LET metric == metrics[key]
       IN  /\ labelOrder \in Perms(DOMAIN metric.Labels)
           /\ scr' = [scr EXCEPT !.todo = @ \ {key}, !.helpAdded = TRUE,
                                 !.output = @ \o RenderLines(metric, scr.helpAdded, labelOrder)]
    /\ UNCHANGED <<phase, configVars, storeVars, lockVars, obs, exchanges, scrapes,
                   serverVars, historyVars,
                   envVars, twinVars, writerVars>>

\* a render that returns without the deferred RUnlock
RenderReturn_KeepsRLock ==
    /\ scr.pc = "range"
    /\ scr.todo = {}
    /\ scr' = IdleScraper
    /\ UNCHANGED <<phase, configVars, storeVars, lockVars, obs, exchanges, scrapes,
                   serverVars, historyVars, envVars, twinVars, writerVars>>

\* the range is exhausted: return output, the deferred RUnlock runs
RenderReturn ==
    /\ scr.pc = "range"
    /\ scr.todo = {}
    /\ muReaders' = muReaders - 1
    /\ scr' = IdleScraper
    /\ UNCHANGED <<phase, configVars, storeVars, muWriter, obs, exchanges, scrapes,
                   serverVars, historyVars,
                   envVars, twinVars, writerVars>>

(* --------------------------- specification ----------------------------- *)
\* New on any configuration and any state of the requested port
Construct ==
    \E headers \in HeaderConfigs, type \in ConfigTypes, port \in ConfigPorts,
       portInUse \in BOOLEAN : New(headers, type, port, portInUse)

\* New as the tests and the benchmark call it: on a free port
ConstructOnFreePort ==
    \E headers \in HeaderConfigs, type \in ConfigTypes : New(headers, type, 0, FALSE)

\* the request path and the scrape path on the store
Next ==
    \/ ConstructOnFreePort
    \/ \E o \in Observers : ServeHTTP(o)
    \/ \E o \in Observers : NextReturns(o)
    \/ \E o \in Observers : Lock(o)
    \/ \E o \in Observers : BuildKey(o)
    \/ \E o \in Observers : GetOrCreate(o)
    \/ \E o \in Observers : UpdateLoad(o)
    \/ \E o \in Observers : UpdateStore(o)
    \/ \E o \in Observers : Unlock(o)
    \/ RenderStart
    \/ \E key \in DOMAIN metrics : \E labelOrder \in Perms(Range(metricHeaders)) :
          RenderSeries(key, labelOrder)
    \/ RenderReturn

Spec == Init /\ [][Next]_vars

\* every goroutine that can take its next step takes it (the Go scheduler
\* runs every runnable goroutine, and a goroutine blocked in Lock is woken
\* when the lock is free), and the downstream handler returns; that new
\* requests or scrapes arrive is not owed
FairSpec ==
    /\ Spec
    /\ \A o \in Observers :
          /\ WF_vars(NextReturns(o))
          /\ WF_vars(Lock(o))
          /\ WF_vars(BuildKey(o))
          /\ WF_vars(GetOrCreate(o))
          /\ WF_vars(UpdateLoad(o))
          /\ WF_vars(UpdateStore(o))
          /\ WF_vars(Unlock(o))
    /\ WF_vars(\E key \in DOMAIN metrics : \E labelOrder \in Perms(Range(metricHeaders)) :
                  RenderSeries(key, labelOrder))
    /\ WF_vars(RenderReturn)

\* the lifecycle of the background metrics server
LifecycleNext ==
    \/ Construct
    \/ StopClose
    \/ StopWait
    \/ StopServerClose
    \/ \E serveErr \in {"ErrServerClosed", "accept"} : ServeReturns(serveErr)

LifecycleSpec == Init /\ [][LifecycleNext]_vars

\* Stop's steps and the goroutine's return from a closed server are taken
\* whenever they stay possible (the Go scheduler runs every runnable
\* goroutine); a failure of the listener is not owed
LifecycleFairSpec ==
    /\ LifecycleSpec
    /\ WF_vars(StopClose)
    /\ WF_vars(StopWait)
    /\ WF_vars(StopServerClose)
    /\ WF_vars(ServeReturns("ErrServerClosed"))

\* New of the histogram instance that runs beside a gauge instance
ConstructHistogram ==
    \E headers \in HeaderConfigs : New(headers, MetricTypeHistogram, 0, FALSE)

\* the request path of a histogram instance, every exchange of which is also
\* served by the gauge instance
TwinNext ==
    \/ ConstructHistogram
    \/ \E o \in Observers : ServeHTTP(o)
    \/ \E o \in Observers : NextReturns(o)
    \/ \E o \in Observers : Lock(o)
    \/ \E o \in Observers : BuildKey(o)
    \/ \E o \in Observers : GetOrCreate(o)
    \/ \E o \in Observers : UpdateLoad(o)
    \/ \E o \in Observers : UpdateStore(o)
    \/ \E o \in Observers : UnlockBoth(o)

TwinSpec == Init /\ [][TwinNext]_vars

\* the request path under exchanges whose header values hold the separator
KeyNext ==
    \/ ConstructOnFreePort
    \/ \E o \in Observers : ServeHTTP(o)
    \/ \E o \in Observers : NextReturns(o)
    \/ \E o \in Observers : LockDelimited(o)
    \/ \E o \in Observers : BuildKey(o)
    \/ \E o \in Observers : GetOrCreate(o)
    \/ \E o \in Observers : UpdateLoad(o)
    \/ \E o \in Observers : UpdateStore(o)
    \/ \E o \in Observers : Unlock(o)

KeySpec == Init /\ [][KeyNext]_vars

\* the request path of the single-series variant
SingleNext ==
    \/ \E headers \in HeaderConfigs, type \in ConfigTypes : SingleNew(headers, type, 0, FALSE)
    \/ \E o \in Observers : SingleServeHTTP(o)
    \/ \E o \in Observers : SingleLock(o)
    \/ \E o \in Observers : SingleUpdate(o)
    \/ \E o \in Observers : SingleUnlock(o)
    \/ \E o \in Observers : SingleNextReturns(o)

SingleSpec == Init /\ [][SingleNext]_vars

\* one request path seen at the response writer
WriterNext ==
    \/ ConstructOnFreePort
    \/ WrapWriter
    \/ CallNext
    \/ \E statusCode \in StatusCodes : NextWriteHeader(statusCode)
    \/ NextWrite
    \/ \E name \in {HeaderA, HeaderB}, value \in Values : NextSetHeader(name, value)
    \/ NextDone
    \/ CollectAndReturn

WriterSpec == Init /\ [][WriterNext]_vars

(* ------------------------------ properties ----------------------------- *)
GaugeLike == {MetricTypeHistogram, MetricTypeGauge}

\* no collectMetrics call is inside its critical section
Quiescent == \A o \in Observers : obs[o].pc \in {"idle", "next", "collect"}

AllFinished == \A o \in Observers : obs[o].pc = "idle"

\* the series whose labels are L
SeriesOf(L) == {k \in DOMAIN metrics : metrics[k].Labels = L}

Min(S) == CHOOSE x \in S : \A y \in S : x <= y

\* the value of the first string of `values` that parses, DefaultValue if none
FirstParsed(values) ==
    LET idx == {i \in DOMAIN values : ~ParseFloat(values[i]).err}
    IN  IF idx = {} THEN DefaultValue ELSE ParseFloat(values[Min(idx)]).val

\* all request values in configured order, then all response values
RequestsThenResponses(names, req, responseHeaders) ==
    [i \in 1..(2 * Len(names)) |->
        IF i <= Len(names) THEN Get(req, names[i])
        ELSE Get(responseHeaders, names[i - Len(names)])]

\* per configured header: its request value, then its response value
HeaderByHeader(names, req, responseHeaders) ==
    [i \in 1..(2 * Len(names)) |->
        IF i % 2 = 1 THEN Get(req, names[(i + 1) \div 2])
        ELSE Get(responseHeaders, names[i \div 2])]

\* C1: for a counter, once all concurrent observers have finished, every
\* observed label combination has exactly one series and its value is the
\* number of observations of that combination.
C1_OneSeriesCountsAll ==
    (metricType = MetricTypeCounter /\ AllFinished) =>
        \A L \in DOMAIN observed :
            /\ Cardinality(SeriesOf(L)) = 1
            /\ \A k \in SeriesOf(L) : metrics[k].Value = observed[L].n

\* C2: every series key is the metric name followed by _<header>_<value> for
\* the configured headers in configured order, and no two series of the
\* store have the same name and labels.
C2_KeyInConfiguredOrder ==
    /\ \A k \in DOMAIN metrics :
          k = createMetricKey(MetricName, metrics[k].Labels, metricHeaders)
    /\ \A k1, k2 \in DOMAIN metrics :
          (metrics[k1].Name = metrics[k2].Name /\ metrics[k1].Labels = metrics[k2].Labels)
              => k1 = k2

\* C3: for a counter, between observations every series's value is the
\* number of completed exchanges whose resolved labels are that series's.
C3_CounterCountsExchanges ==
    (metricType = MetricTypeCounter /\ Quiescent) =>
        \A k \in DOMAIN metrics :
            /\ metrics[k].Labels \in DOMAIN observed
            /\ metrics[k].Value = observed[metrics[k].Labels].n

\* C4: once Stop waits for the server goroutine, Stop eventually returns
\* with the listener closed and the port released.
C4_StopReturns ==
    (stopPc = "wait") ~> (stopPc = "returned" /\ listener = Nil)

\* C5: every data line a render in progress has produced carries the full
\* label set and the value its series held when an observation last
\* completed; a counter is never rendered with value 0.
C5_RenderSeesCommittedSeries ==
    scr.pc = "range" =>
        \A i \in DOMAIN scr.output :
            scr.output[i].line = "DATA" =>
                LET l == scr.output[i]
                IN  /\ Len(l.labelPairs) = Len(metricHeaders)
                    /\ {l.labelPairs[j][1] : j \in DOMAIN l.labelPairs} = Range(metricHeaders)
                    /\ \E k \in DOMAIN committed :
                          /\ \A j \in DOMAIN l.labelPairs :
                                metrics[k].Labels[l.labelPairs[j][1]] = l.labelPairs[j][2]
                          /\ l.Value = committed[k]
                    /\ metricType = MetricTypeCounter => l.Value >= 1

\* C5 witness: a render has produced a data line while an observer waits
\* for the lock.
C5_Witness ==
    /\ scr.pc = "range"
    /\ \E i \in DOMAIN scr.output : scr.output[i].line = "DATA"
    /\ \E o \in Observers : obs[o].pc = "collect"

\* C6: for a gauge, between observations every series holds the value of
\* the last completed observation of its label combination.
C6_GaugeLastWins ==
    (metricType = MetricTypeGauge /\ Quiescent) =>
        \A k \in DOMAIN metrics :
            /\ metrics[k].Labels \in DOMAIN observed
            /\ metrics[k].Value = observed[metrics[k].Labels].last

\* C7 as stated: the value a gauge or histogram observation stored is the
\* first that parses when each configured header is tried in the request and
\* then in the response, header by header; 1 if none parses.
C7_HeaderByHeader ==
    \A o \in Observers :
        (obs[o].pc = "unlock" /\ metricType \in GaugeLike) =>
            metrics[obs[o].metricKey].Value =
                FirstParsed(HeaderByHeader(metricHeaders, obs[o].req, obs[o].responseHeaders))

\* C7 amended: the value a gauge or histogram observation stored is the
\* first that parses among the request's values of the configured headers in
\* configured order, then among the response's values in configured order;
\* 1 if none parses.
C7_RequestsThenResponses ==
    \A o \in Observers :
        (obs[o].pc = "unlock" /\ metricType \in GaugeLike) =>
            metrics[obs[o].metricKey].Value =
                FirstParsed(RequestsThenResponses(metricHeaders, obs[o].req,
                                                  obs[o].responseHeaders))

\* C7 witness: an observation stored the second header's request value after
\* skipping the first header's unparsable request value, although the first
\* header's response value parses.
C7_Witness ==
    \E o \in Observers :
        /\ obs[o].pc = "unlock"
        /\ metricType \in GaugeLike
        /\ metricHeaders = <<HeaderA, HeaderB>>
        /\ obs[o].req[HeaderA] = <<"u">>
        /\ obs[o].responseHeaders[HeaderA] = <<"7">>
        /\ obs[o].req[HeaderB] = <<"1", "2">>
        /\ metrics[obs[o].metricKey].Value = 12

\* C8: the series an observation updated is labelled, for every configured
\* header, with the request's value if non-empty, else the response's value,
\* else the empty string; on a counter the first observation of a label
\* combination leaves value 1.
C8_LabelResolution ==
    \A o \in Observers :
        obs[o].pc = "unlock" =>
            LET series == metrics[obs[o].metricKey]
            IN  /\ DOMAIN series.Labels = Range(metricHeaders)
                /\ \A h \in Range(metricHeaders) :
                      series.Labels[h] =
                          IF Get(obs[o].req, h) # << >> THEN Get(obs[o].req, h)
                          ELSE Get(obs[o].responseHeaders, h)
                /\ (metricType = MetricTypeCounter /\ series.Labels \notin DOMAIN observed)
                      => series.Value = 1

\* C8 witness: a counter observation whose header was set on the response
\* only produced a series labelled with the response value, with value 1.
C8_Witness ==
    \E o \in Observers :
        /\ obs[o].pc = "unlock"
        /\ metricType = MetricTypeCounter
        /\ obs[o].req[HeaderA] = << >>
        /\ obs[o].responseHeaders[HeaderA] = <<"7">>
        /\ metrics[obs[o].metricKey].Labels[HeaderA] = <<"7">>
        /\ metrics[obs[o].metricKey].Value = 1

\* no configured header is present in the request or the response of o
NoHeaderPresent(o) ==
    \A h \in Range(metricHeaders) :
        Get(obs[o].req, h) = << >> /\ Get(obs[o].responseHeaders, h) = << >>

\* C9: an observation of an exchange carrying no configured header touched
\* exactly one series: that series maps every configured header to the empty
\* string and, for gauge and histogram, holds 1, and every other series is as
\* the last completed observation left it; once an exchange was observed the
\* store is not empty.
C9_MissingHeaders ==
    /\ \A o \in Observers :
          (obs[o].pc = "unlock" /\ NoHeaderPresent(o)) =>
              /\ obs[o].metricKey \in DOMAIN metrics
              /\ metrics[obs[o].metricKey].Labels = [h \in Range(metricHeaders) |-> << >>]
              /\ metricType \in GaugeLike => metrics[obs[o].metricKey].Value = 1
              /\ \A k \in DOMAIN metrics \ {obs[o].metricKey} :
                    k \in DOMAIN committed /\ metrics[k].Value = committed[k]
    /\ DOMAIN observed # {} => DOMAIN metrics # {}

\* C9 witness: a gauge or histogram observation without any configured
\* header completed its update while another series already existed.
C9_Witness ==
    \E o \in Observers :
        /\ obs[o].pc = "unlock"
        /\ NoHeaderPresent(o)
        /\ metricType \in GaugeLike
        /\ metrics[obs[o].metricKey].Value = 1
        /\ Cardinality(DOMAIN metrics) = 2

\* C10: an instance that New returned has one of the three supported kinds.
C10_UnsupportedKindRejected ==
    phase = "built" => metricType \in SupportedTypes


\* New returned an error for the empty header list: nothing of Config was
\* copied into an instance
FailedOnHeaders == phase = "failed" /\ Len(metricHeaders) = 0

\* C11: construction with an empty header list fails (no instance is ever
\* built with an empty metricHeaders), and it fails before net.Listen and the
\* `go func()`: no port is bound, no goroutine serves, the store is empty and
\* neither channel was touched.
C11_EmptyHeadersRejected ==
    /\ phase = "built" => Len(metricHeaders) > 0
    /\ FailedOnHeaders =>
          /\ listener = Nil
          /\ serveState = "none"
          /\ ~portTaken
          /\ metrics = << >>
          /\ ~serverStop /\ ~serverStopped

C11_Witness == FailedOnHeaders /\ listener = Nil /\ serveState = "none"

\* C12: when net.Listen finds the requested non-zero port taken, New fails:
\* no instance, no socket, no goroutine; a socket that is bound is on the
\* requested port, never on another one; and a construction on port 0 with a
\* non-empty header list succeeds.
C12_PortConflictFails ==
    /\ portTaken =>
          /\ phase = "failed"
          /\ listener = Nil
          /\ serveState = "none"
    /\ (metricsPort # 0 /\ listener # Nil) => listener = metricsPort
    /\ (phase # "unbuilt" /\ Len(metricHeaders) > 0 /\ metricsPort = 0) =>
          phase = "built"

C12_Witness ==
    /\ portTaken
    /\ metricsPort = DefaultMetricsPort
    /\ phase = "failed"
    /\ listener = Nil


\* the range of renderPrometheusFormat is exhausted: scr.output is the text
\* the render returns
RenderComplete == scr.pc = "range" /\ scr.todo = {}

\* the positions of the lines of one kind in the render's output
LinesOf(kind) == {i \in DOMAIN scr.output : scr.output[i].line = kind}

\* data line l shows series k
Shows(l, k) ==
    /\ l.Name = metrics[k].Name
    /\ l.Value = metrics[k].Value
    /\ Len(l.labelPairs) = Cardinality(DOMAIN metrics[k].Labels)
    /\ \A j \in DOMAIN l.labelPairs :
          /\ l.labelPairs[j][1] \in DOMAIN metrics[k].Labels
          /\ metrics[k].Labels[l.labelPairs[j][1]] = l.labelPairs[j][2]

\* C13: a complete render holds, for every metric name in the store, exactly
\* one HELP and one TYPE line, both before every data line of that name, no
\* comment line for any other name (so none for the empty store), and one
\* data line per series: as many data lines as series, each series shown by
\* one and each line showing one.
C13_OneHelpPerName ==
    RenderComplete =>
        LET out == scr.output
            names == {metrics[k].Name : k \in DOMAIN metrics}
        IN  /\ \A n \in names : \A kind \in {"HELP", "TYPE"} :
                  /\ Cardinality({i \in LinesOf(kind) : out[i].Name = n}) = 1
                  /\ \A i \in LinesOf(kind) : \A d \in LinesOf("DATA") :
                        (out[i].Name = n /\ out[d].Name = n) => i < d
            /\ \A i \in LinesOf("HELP") \cup LinesOf("TYPE") : out[i].Name \in names
            /\ Cardinality(LinesOf("DATA")) = Cardinality(DOMAIN metrics)
            /\ \A k \in DOMAIN metrics : \E d \in LinesOf("DATA") : Shows(out[d], k)
            /\ \A d \in LinesOf("DATA") : \E k \in DOMAIN metrics : Shows(out[d], k)

\* C13 witness: a complete render of a store of two series.
C13_Witness ==
    /\ RenderComplete
    /\ Cardinality(DOMAIN metrics) = 2
    /\ Cardinality(LinesOf("DATA")) = 2
    /\ Cardinality(LinesOf("HELP")) = 1


\* C14: in every rendered data line the labels appear in the order of the
\* configured header list.
C14_LabelsInConfiguredOrder ==
    \A d \in LinesOf("DATA") :
        [j \in DOMAIN scr.output[d].labelPairs |-> scr.output[d].labelPairs[j][1]]
            = metricHeaders


\* C15: no step removes a series or changes its name, kind or labels: every
\* key of the store is a key of the next store, with the same Name, Type and
\* Labels.
C15_SeriesPersist ==
    [][\A k \in DOMAIN metrics :
          /\ k \in DOMAIN metrics'
          /\ metrics'[k].Name = metrics[k].Name
          /\ metrics'[k].Type = metrics[k].Type
          /\ metrics'[k].Labels = metrics[k].Labels]_vars

\* C15 witness: a second series was created next to one whose value had
\* been written, and a render has run over both.
C15_Witness ==
    /\ Cardinality(DOMAIN metrics) = 2
    /\ \A k \in DOMAIN metrics : k \in DOMAIN committed
    /\ scrapes = 1
    /\ scr.pc = "idle"

C17_HistogramAsGauge ==
    (metricType = MetricTypeHistogram /\ Quiescent) =>
        /\ DOMAIN twin = DOMAIN metrics
        /\ \A k \in DOMAIN metrics :
              /\ twin[k].Labels = metrics[k].Labels
              /\ twin[k].Value = metrics[k].Value


\* C18: when ServeHTTP has returned, the downstream handler was entered
\* exactly once, and the status that reached the client through the wrapper
\* is the status the handler's own calls produce on an http.ResponseWriter.
C18_StatusPassesThrough ==
    rw.pc = "done" =>
        /\ rw.nextCalls = 1
        /\ StatusSent(rw.under) = StatusSent(rw.calls)

\* C18 witness: the handler wrote status 500 and then a body, on an instance
\* that counts, and the client received 500 after collection ran.
C18_Witness ==
    /\ rw.pc = "done"
    /\ rw.calls = <<WriteHeaderCall(StatusInternalServerError), WriteCall>>
    /\ StatusSent(rw.under) = StatusInternalServerError
    /\ metrics # << >>


\* C19: the series an observation is stored under carries the labels of that
\* observation: exchanges of different label mappings never meet in one
\* series, whatever characters the header values hold.
C19_DistinctLabelsDistinctSeries ==
    \A o \in Observers :
        obs[o].pc \in {"update", "store", "unlock"} =>
            metrics[obs[o].metricKey].Labels = obs[o].labels


\* the positions of the configured headers whose value in `header` parses
NumericAt(header) ==
    {i \in DOMAIN metricHeaders : ~ParseFloat(Get(header, metricHeaders[i])).err}

\* C20: the value a gauge or histogram observation computes is, when some
\* configured request header is numeric, that of the first such header in
\* configured order, and it is the same for every response the exchange could
\* have had; only when no request header is numeric is it the first numeric
\* response header in configured order, or 1 when there is none.
C20_RequestPrecedence ==
    \A o \in Observers :
        (obs[o].pc \in {"store", "unlock"} /\ metricType \in GaugeLike) =>
            LET req == obs[o].req
                responseHeaders == obs[o].responseHeaders
            IN  IF NumericAt(req) # {}
                THEN /\ obs[o].value =
                           ParseFloat(Get(req, metricHeaders[Min(NumericAt(req))])).val
                     /\ \A other \in Headers :
                           getNumericValueFromHeaders(metricHeaders, req, other)
                               = obs[o].value
                ELSE IF NumericAt(responseHeaders) # {}
                THEN obs[o].value =
                         ParseFloat(Get(responseHeaders,
                                        metricHeaders[Min(NumericAt(responseHeaders))])).val
                ELSE obs[o].value = DefaultValue

\* C20 witness: the request's only numeric header is the second one and the
\* response's first header is numeric too; the request's value was computed.
C20_Witness ==
    \E o \in Observers :
        /\ obs[o].pc = "store"
        /\ metricType \in GaugeLike
        /\ metricHeaders = <<HeaderA, HeaderB>>
        /\ obs[o].req[HeaderA] = << >>
        /\ obs[o].req[HeaderB] = <<"1", "2">>
        /\ obs[o].responseHeaders[HeaderA] = <<"7">>
        /\ obs[o].value = 12


\* the calls of one kind in a sequence of calls on a writer
CallsOf(callSeq, kind) == {i \in DOMAIN callSeq : callSeq[i].op = kind}

\* C21: whatever calls the downstream handler has made on the wrapper, the
\* writer under it received WriteHeader at most once, as its first call: with
\* the handler's status when the handler's first call was WriteHeader, with
\* 200 when it was Write; every later WriteHeader was dropped and every Write
\* was forwarded.
C21_WriteHeaderOnce ==
    /\ Cardinality(CallsOf(rw.under, "WriteHeader")) <= 1
    /\ rw.calls = << >> => rw.under = << >>
    /\ rw.calls # << >> =>
          /\ rw.under[1] =
                WriteHeaderCall(IF rw.calls[1].op = "WriteHeader"
                                THEN rw.calls[1].code ELSE StatusOK)
          /\ \A i \in 2..Len(rw.under) : rw.under[i] = WriteCall
          /\ Cardinality(CallsOf(rw.under, "Write"))
                = Cardinality(CallsOf(rw.calls, "Write"))
    /\ rw.headerWritten = (rw.calls # << >>)

\* C21 witness: the handler wrote a body and then status 500; the writer
\* under the wrapper received status 200 and the body, nothing else.
C21_Witness ==
    /\ rw.calls = <<WriteCall, WriteHeaderCall(StatusInternalServerError)>>
    /\ rw.under = <<WriteHeaderCall(StatusOK), WriteCall>>


\* the keys under which store `st` differs from store `old`
Touched(old, st) ==
    {k \in DOMAIN st : k \notin DOMAIN old \/ st[k] # old[k]}

\* C22: until the downstream handler has returned and collectMetrics has
\* run, the exchange has been observed zero times and the store is the one
\* ServeHTTP found, so a scrape shows nothing of it; when ServeHTTP has
\* returned it has been observed once: at most one series differs from that
\* store, no series is gone, and a series carries the labels resolved from
\* the request and the response headers the handler left.
C22_ObservedOnceAfterNext ==
    /\ rw.pc \in {"wrapped", "next", "collect"} =>
          /\ rw.collected = 0
          /\ metrics = rw.before
    /\ rw.pc = "done" =>
          /\ rw.collected = 1
          /\ DOMAIN rw.before \subseteq DOMAIN metrics
          /\ Cardinality(Touched(rw.before, metrics)) <= 1
          /\ \E k \in DOMAIN metrics :
                /\ metrics[k].Labels = CollectLabels(metricHeaders, rw.req, rw.header)
                /\ Touched(rw.before, metrics) \subseteq {k}
                /\ metricType = MetricTypeCounter =>
                      metrics[k].Value =
                          (IF k \in DOMAIN rw.before THEN rw.before[k].Value ELSE 0) + 1

\* C22 witness: the request carried no A, the handler wrote its status and
\* then set A on the response, and the exchange was counted in a series
\* labelled with that value.
C22_Witness ==
    /\ rw.pc = "done"
    /\ metricType = MetricTypeCounter
    /\ rw.req[HeaderA] = << >>
    /\ rw.calls = <<WriteHeaderCall(StatusOK)>>
    /\ Get(rw.header, HeaderA) = <<"7">>
    /\ \E k \in DOMAIN metrics :
          metrics[k].Labels[HeaderA] = <<"7">> /\ metrics[k].Value = 1


\* observer o is inside the critical section of collectMetrics
InCollect(o) == obs[o].pc \in {"labels", "lookup", "update", "store", "unlock"}

\* a writer holds the lock alone, and whoever is inside a critical section
\* holds the lock
LockExcludes ==
    /\ muWriter # Nil => muReaders = 0
    /\ \A o \in Observers : InCollect(o) <=> muWriter = o
    /\ scr.pc = "range" <=> muReaders = 1

\* C23: writers exclude readers and other writers, and under fair scheduling
\* every collectMetrics call that waits for or holds the lock returns, every
\* render that holds the read lock returns, and the lock, once taken, is
\* released.
C23_LockAlwaysReleased ==
    /\ []LockExcludes
    /\ \A o \in Observers :
          (obs[o].pc = "collect" \/ InCollect(o)) ~> (obs[o].pc = "idle")
    /\ (scr.pc = "range") ~> (scr.pc = "idle")
    /\ (muWriter # Nil) ~> (muWriter = Nil)
    /\ (muReaders > 0) ~> (muReaders = 0)

\* C23 witness: a render holds the read lock while every observer waits in
\* c.store.mu.Lock().
C23_Witness ==
    /\ scr.pc = "range"
    /\ muReaders = 1
    /\ \A o \in Observers : obs[o].pc = "collect"


\* C24: every series of the store has the configured metric name, the
\* configured kind, and labels whose keys are exactly the configured header
\* names, of which there is at least one.
C24_SeriesShape ==
    \A k \in DOMAIN metrics :
        /\ metrics[k].Name = MetricName
        /\ metrics[k].Type = metricType
        /\ DOMAIN metrics[k].Labels = Range(metricHeaders)
        /\ DOMAIN metrics[k].Labels # {}

\* C24 witness: a gauge of two configured headers holds two series, one of
\* them for an exchange that carried neither header.
C24_Witness ==
    /\ metricType = MetricTypeGauge
    /\ Len(metricHeaders) = 2
    /\ Cardinality(DOMAIN metrics) = 2
    /\ \E k \in DOMAIN metrics : \A h \in Range(metricHeaders) : metrics[k].Labels[h] = << >>


\* some configured header has a non-empty value in the request of observer o
SomeHeaderPresent(o) ==
    \E h \in Range(metricHeaders) : Get(obs[o].req, h) # << >>

\* the observers whose collectMetrics writes in this step
Updating == {o \in Observers : obs[o].pc = "update" /\ obs'[o].pc = "unlock"}

\* C25: in the single-series variant the store of an instance always holds
\* exactly the series made by New, under the metric name and without labels;
\* on a counter, a request adds exactly 1 to it when some configured header
\* is present in the request and nothing when none is, and no other step
\* changes it.
C25_SingleSeriesCounter ==
    /\ [](phase = "built" =>
            /\ DOMAIN metrics = {MetricName}
            /\ metrics[MetricName].Name = MetricName
            /\ metrics[MetricName].Type = metricType
            /\ metrics[MetricName].Labels = << >>)
    /\ [][(phase = "built" /\ metricType = MetricTypeCounter) =>
            /\ Updating = {} => metrics'[MetricName].Value = metrics[MetricName].Value
            /\ \A o \in Updating :
                  metrics'[MetricName].Value =
                      metrics[MetricName].Value + (IF SomeHeaderPresent(o) THEN 1 ELSE 0)]_vars

\* C25 witness: a request carrying both configured headers has been counted
\* once, after a request carrying none was not counted.
C25_Witness ==
    /\ metricType = MetricTypeCounter
    /\ metricHeaders = <<HeaderA, HeaderB>>
    /\ exchanges = 2
    /\ \E o \in Observers :
          /\ obs[o].pc = "unlock"
          /\ obs[o].req[HeaderA] # << >>
          /\ obs[o].req[HeaderB] # << >>
    /\ \E o \in Observers : obs[o].pc = "next" /\ ~SomeHeaderPresent(o)
    /\ metrics[MetricName].Value = 1

====
